---- MODULE Spec2Model ----
(***************************************************************************)
(* Nova companion (src/Kompanion.py) and the Piper TTS helper (src/code.py) *)
(* as a state machine: the persisted conversation memory, the two-tier      *)
(* reply generation, the session loop, and the speech path with its         *)
(* playback lock and temporary wav files.                                   *)
(*                                                                          *)
(* Text is a sequence of atoms.  An atom is a one-character string (a       *)
(* whitespace character, a quote, a letter) or an opaque run of text with   *)
(* no whitespace at either end ("hello", a template phrase).  A curly quote  *)
(* is the atom of its name ("ldquo", "rdquo", "lsquo", "rsquo").            *)
(***************************************************************************)
EXTENDS Integers, Sequences, FiniteSets, TLC

VARIABLES
    pc,         \* main(): position of the session loop
    history,    \* main(): the in-memory list of turns
    file,       \* the file HISTORY_FILE on disk
    adult,      \* os.environ["ADULT_MODE"] == "1"
    turns,      \* chat turns started by the session loop
    warn,       \* warnings written to stderr during the current loop iteration
    gen,        \* activation record of generate_reply / try_llm_reply
    sp,         \* activation record of speak (Kompanion.py)
    disk,       \* temporary wav files present on disk
    play_lock,  \* code._play_lock is held
    th,         \* per playback thread: activation record of play_text
    status,     \* text of the GUI status label
    probe       \* the last direct call of a function: its arguments and its outcome

vars == <<pc, history, file, adult, turns, warn, gen, sp, disk, play_lock, th, status,
          probe>>

(***************************************************************************)
(* Bounds of the model.                                                     *)
(***************************************************************************)
MaxTurns == 1       \* chat turns per session
MaxDraw == 1        \* phrases of each fallback list that random.choice draws from
NumThreads == 2     \* playback threads started by the GUI
MaxTextLen == 3     \* characters of a text handed to the text cleaning

(***************************************************************************)
(* Text helpers (Python str).                                               *)
(***************************************************************************)
Whitespace == {" ", "\n"}

RECURSIVE lstrip(_)
lstrip(s) ==
    IF s # <<>> /\ Head(s) \in Whitespace THEN lstrip(Tail(s)) ELSE s

RECURSIVE rstrip(_)
rstrip(s) ==
    IF s # <<>> /\ s[Len(s)] \in Whitespace
    THEN rstrip(SubSeq(s, 1, Len(s) - 1))
    ELSE s

\* str.strip()
strip(s) == rstrip(lstrip(s))

\* sub in s
Contains(s, sub) ==
    \E i \in 0..(Len(s) - Len(sub)) : SubSeq(s, i + 1, i + Len(sub)) = sub

\* The characters of the class in re.sub(r'[\\s\"...\'...]+$', "", cleaned): in
\* the raw string, \\ is a backslash and s is the letter s; then the straight
\* and curly double quotes, the straight and curly single quotes
TrailingClass == {"\\", "s", "\"", "ldquo", "rdquo", "'", "rsquo", "lsquo"}

\* re.sub(r'[...]+$', "", s): the longest run of class characters at the end
\* of s is removed
RECURSIVE re_sub_trailing(_)
re_sub_trailing(s) ==
    IF s # <<>> /\ s[Len(s)] \in TrailingClass
    THEN re_sub_trailing(SubSeq(s, 1, Len(s) - 1))
    ELSE s

\* _clean_text_for_tts (code.py 48-55)
clean_text_for_tts(text) ==
    LET cleaned == re_sub_trailing(strip(text))
    IN  IF cleaned # <<>> THEN cleaned ELSE strip(text)

\* The value None, and a str value, of an Optional[str].
None == [none |-> TRUE, text |-> <<>>]
Some(s) == [none |-> FALSE, text |-> s]

\* Python truthiness of an Optional[str]
Truthy(o) == ~o.none /\ o.text # <<>>

(***************************************************************************)
(* Settings (Kompanion.py 38-39).                                           *)
(***************************************************************************)
MAX_HISTORY_MESSAGES == 60

Turn(role, content) == [role |-> role, content |-> content]
UserTurn(text) == Turn(<<"user">>, text)
AssistantTurn(text) == Turn(<<"assistant">>, text)

(***************************************************************************)
(* The history file.  Its content is absent, text that is not JSON, a JSON  *)
(* value that is not a list, or a JSON list of items.  An item is a JSON    *)
(* object with some of the keys role and content, or another JSON value;    *)
(* a value under a key is a string, a number or null.                       *)
(***************************************************************************)
JStr(s) == [t |-> "str", v |-> s]
JNum(digits) == [t |-> "num", v |-> digits]
JNull == [t |-> "null", v |-> <<>>]

\* Faulty variant: repr(value) in place of str(value): a string comes back quoted
PyStr_repr(j) == IF j.t = "str" THEN <<"'">> \o j.v \o <<"'">> ELSE j.v

\* Python str(value) of a loaded JSON value
PyStr(j) == IF j.t = "null" THEN <<"None">> ELSE j.v

JObject(keys, role, content) ==
    [dict |-> TRUE, keys |-> keys, role |-> role, content |-> content]
JOther == [dict |-> FALSE, keys |-> {}, role |-> JNull, content |-> JNull]

FileAbsent == [kind |-> "absent", data |-> <<>>]
FileGarbage == [kind |-> "garbage", data |-> <<>>]
FileNotList == [kind |-> "json_other", data |-> <<>>]
FileList(items) == [kind |-> "json_list", data |-> items]

\* json.dump of one turn: an object with both keys, role first
DumpTurn(t) == JObject({"role", "content"}, JStr(t.role), JStr(t.content))

\* history[-MAX_HISTORY_MESSAGES:]
LastN(s, n) == IF Len(s) <= n THEN s ELSE SubSeq(s, Len(s) - n + 1, Len(s))

\* Faulty variant: history[:MAX_HISTORY_MESSAGES]: the oldest turns are kept
Trimmed_oldest(h) ==
    IF Len(h) <= MAX_HISTORY_MESSAGES THEN h ELSE SubSeq(h, 1, MAX_HISTORY_MESSAGES)

Trimmed(h) == LastN(h, MAX_HISTORY_MESSAGES)

\* json.dump of a list of turns: the list of their objects, in order
DumpTurns(ts) == [i \in 1..Len(ts) |-> DumpTurn(ts[i])]

\* json.dump(trimmed, f, ...) as the content of the file
DumpHistory(h) == FileList(DumpTurns(Trimmed(h)))

\* Outcomes of the write in save_history: the write succeeds; open() raises and
\* the file is untouched; open() has truncated the file and the write raises.
SaveOutcomes == {"ok", "open_fails", "write_fails"}

\* Faulty variant: open(HISTORY_FILE, "a"): the dump follows what the file
\* held, and two documents in a row are not valid JSON
save_history_append(h, f, outcome) ==
    CASE outcome = "ok" -> IF f.kind = "absent" THEN DumpHistory(h) ELSE FileGarbage
      [] outcome = "open_fails" -> f
      [] outcome = "write_fails" -> FileGarbage

\* save_history(history): the file afterwards
save_history(h, f, outcome) ==
    CASE outcome = "ok" -> DumpHistory(h)
      [] outcome = "open_fails" -> f
      [] outcome = "write_fails" -> FileGarbage

\* save_history never raises; a failed write is a warning
SaveWarns(outcome) == IF outcome = "ok" THEN {} ELSE {"save"}

\* Faulty variant: the sanity check asks for "role" only
WellFormedItem_role_only(item) == item.dict /\ "role" \in item.keys

\* the sanity check of load_history on one item
WellFormedItem(item) == item.dict /\ "role" \in item.keys /\ "content" \in item.keys

RECURSIVE Cleaned(_)
Cleaned(items) ==
    IF items = <<>> THEN <<>>
    ELSE IF WellFormedItem(Head(items))
         THEN <<Turn(PyStr(Head(items).role), PyStr(Head(items).content))>>
                  \o Cleaned(Tail(items))
         ELSE Cleaned(Tail(items))

\* load_history(): readable is whether open() and read() succeed
load_history(f, readable) ==
    IF f.kind = "absent" THEN <<>>
    ELSE IF ~readable THEN <<>>
    ELSE IF f.kind = "json_list" THEN Cleaned(f.data)
    ELSE <<>>

\* load_history: open() or json.load raises inside the try (lines 48-50)
LoadFails(f, readable) == f.kind # "absent" /\ (~readable \/ f.kind = "garbage")

\* the except clause of load_history (line 58)
LoadExceptCatches == TRUE

\* Outcomes of os.remove in reset_history
RemoveOutcomes == {"ok", "fails"}

\* Faulty variant: os.remove is never reached
reset_history_keeps(f, outcome) == f

\* reset_history(): the file afterwards
reset_history(f, outcome) ==
    IF f.kind = "absent" THEN f
    ELSE IF outcome = "ok" THEN FileAbsent
    ELSE f

ResetWarns(f, outcome) ==
    IF f.kind # "absent" /\ outcome = "fails" THEN {"delete"} ELSE {}

(***************************************************************************)
(* Adult mode and the system prompt (Kompanion.py 84-116).                  *)
(***************************************************************************)
adult_mode_enabled(flag) == flag

PersonaPrompt == <<"You are Nova ... Keep replies under 70 words and sound conversational. ">>
AdultRules == <<"Adult mode is ON. ... Never involve minors.">>

\* Faulty variant: the adult rules are never appended
build_system_prompt_plain(flag) == PersonaPrompt

build_system_prompt(flag) ==
    PersonaPrompt \o (IF adult_mode_enabled(flag) THEN AdultRules ELSE <<>>)

(***************************************************************************)
(* The primary backend (Kompanion.py 122-143).  A response is what the one  *)
(* requests.post of a call leads to: the post raises, the status is not     *)
(* 2xx, the body is not JSON, or the body is a JSON value of some shape.    *)
(***************************************************************************)
Resp(kind, content) == [kind |-> kind, content |-> content]

\* what message.content holds in a well-shaped answer
AnswerTexts ==
    { <<>>, <<" ">>, <<"Hi!">>, <<" ", "Hi!", "\n">>, <<"Hi!", " ", "there">> }

Responses ==
    { Resp(k, <<>>) : k \in { "transport_error", "timeout", "http_error", "bad_json",
                              "not_object", "no_message", "message_not_object",
                              "no_content", "content_null", "content_number" } }
    \cup { Resp("content_text", c) : c \in AnswerTexts }

\* requests.post raises (connection refused, timeout after 30 s)
PostRaises(resp) == resp.kind \in {"transport_error", "timeout"}

\* the statements of the try block that raise on this response
TryRaises(resp) ==
    \/ PostRaises(resp)
    \/ resp.kind = "http_error"              \* resp.raise_for_status()
    \/ resp.kind = "bad_json"                \* resp.json()
    \/ resp.kind = "not_object"              \* data.get on a list
    \/ resp.kind = "message_not_object"      \* .get on a str
    \/ resp.kind = "content_number"          \* msg.strip() on a number

\* except Exception: every exception of the try block is caught
ExceptCatches(resp) == TRUE

\* msg = data.get("message", {}).get("content"), when nothing raises
MessageContent(resp) ==
    IF resp.kind = "content_text" THEN Some(resp.content) ELSE None

\* Faulty variant: the content is returned as received, without strip()
try_llm_reply_unstripped(resp) ==
    IF TryRaises(resp) THEN None
    ELSE IF Truthy(MessageContent(resp)) THEN Some(MessageContent(resp).text)
    ELSE None

\* try_llm_reply: the value returned for a response
try_llm_reply(resp) ==
    IF TryRaises(resp) THEN None
    ELSE IF Truthy(MessageContent(resp)) THEN Some(strip(MessageContent(resp).text))
    ELSE None

\* the request try_llm_reply posts
Payload(messages, flag) ==
    [messages |-> messages, stream |-> FALSE, system |-> build_system_prompt(flag)]

NoPayload == [messages |-> <<>>, stream |-> FALSE, system |-> <<>>]

(***************************************************************************)
(* The fallback generator (Kompanion.py 149-168).                           *)
(***************************************************************************)
openers ==
    << "I like how you shared that.", "Thanks for telling me.",
       "That sounds interesting.", "I get the vibe you're going for." >>
questions ==
    << "What made you think of that?", "How are you feeling about it right now?",
       "Want to dive deeper or switch topics?",
       "What would make this even better for you?" >>
closing ==
    << "I'm here with you.", "This is cozy to talk about.", "I'm listening.",
       "Let's keep chatting." >>

\* the indices random.choice(phrases) draws from
Draws(phrases) == { i \in 1..Len(phrases) : i <= MaxDraw }

\* Faulty variant: the user's text is left out of the reply
fallback_reply_no_echo(user_text, i, j, k) ==
    <<openers[i]>> \o <<" ">> \o <<questions[j]>> \o <<" ">> \o <<closing[k]>>

\* i, j, k: the three draws of random.choice
fallback_reply(user_text, i, j, k) ==
    <<openers[i]>> \o <<" ">> \o strip(user_text) \o <<" ">>
        \o <<questions[j]>> \o <<" ">> \o <<closing[k]>>

(***************************************************************************)
(* generate_reply (Kompanion.py 171-176), in two steps: the call of         *)
(* try_llm_reply on the working copy, then the return of its answer or of   *)
(* the fallback.  gen.caller tells who called.                              *)
(***************************************************************************)
GenIdle ==
    [ pc |-> "idle", user_text |-> <<>>, chat_history |-> <<>>,
      request |-> NoPayload, resp |-> Resp("none", <<>>), llm_answer |-> None,
      attempts |-> 0, fallbacks |-> 0, raised |-> FALSE, result |-> <<>> ]

GenCall(user_text) == [GenIdle EXCEPT !.pc = "call", !.user_text = user_text]

\* Faulty variant: history.append(user turn) on the caller's list in place of
\* the copy [*history, user turn]
TryLlmReply_in_place(resp) ==
    /\ gen.pc = "call"
    /\ history' = history \o <<UserTurn(gen.user_text)>>
    /\ LET escapes == TryRaises(resp) /\ ~ExceptCatches(resp)
       IN  /\ gen' = [gen EXCEPT
                        !.pc = IF escapes THEN "returned" ELSE "decide",
                        !.chat_history = history',
                        !.request = Payload(history', adult),
                        !.resp = resp,
                        !.attempts = @ + 1,
                        !.raised = escapes,
                        !.llm_answer = IF escapes THEN None ELSE try_llm_reply(resp)]
           /\ warn' = IF TryRaises(resp) /\ ~escapes THEN warn \cup {"fallback"} ELSE warn
    /\ UNCHANGED <<pc, file, adult, turns, sp, disk, play_lock, th, status, probe>>

\* lines 172-173: chat_history = [*history, user turn]; llm_answer = try_llm_reply(chat_history)
TryLlmReply(resp) ==
    /\ gen.pc = "call"
    /\ LET chat_history == history \o <<UserTurn(gen.user_text)>>
           escapes == TryRaises(resp) /\ ~ExceptCatches(resp)
       IN  /\ gen' = [gen EXCEPT
                        !.pc = IF escapes THEN "returned" ELSE "decide",
                        !.chat_history = chat_history,
                        !.request = Payload(chat_history, adult),
                        !.resp = resp,
                        !.attempts = @ + 1,
                        !.raised = escapes,
                        !.llm_answer = IF escapes THEN None ELSE try_llm_reply(resp)]
           /\ warn' = IF TryRaises(resp) /\ ~escapes THEN warn \cup {"fallback"} ELSE warn
    /\ UNCHANGED <<pc, history, file, adult, turns, sp, disk, play_lock, th, status, probe>>

\* lines 174-175: if llm_answer: return llm_answer
ReturnLlmAnswer ==
    /\ gen.pc = "decide"
    /\ Truthy(gen.llm_answer)
    /\ gen' = [gen EXCEPT !.pc = "returned", !.result = gen.llm_answer.text]
    /\ UNCHANGED <<pc, history, file, adult, turns, warn, sp, disk, play_lock, th, status, probe>>

\* line 176: return fallback_reply(user_text)
ReturnFallback ==
    /\ gen.pc = "decide"
    /\ ~Truthy(gen.llm_answer)
    /\ \E i \in Draws(openers), j \in Draws(questions), k \in Draws(closing) :
          gen' = [gen EXCEPT !.pc = "returned", !.fallbacks = @ + 1,
                             !.result = fallback_reply(gen.user_text, i, j, k)]
    /\ UNCHANGED <<pc, history, file, adult, turns, warn, sp, disk, play_lock, th, status, probe>>

GenerateReply == (\E resp \in Responses : TryLlmReply(resp)) \/ ReturnLlmAnswer \/ ReturnFallback

(***************************************************************************)
(* Temporary wav files.  tempfile.NamedTemporaryFile gives every call a     *)
(* name of its own: the owner (the session loop, or a playback thread) and  *)
(* the number of the owner's call.                                          *)
(***************************************************************************)
WavName(owner, n) == <<owner, ToString(n)>>

\* Outcomes of text_to_speech (code.py 58-78): it returns the path; creating the
\* temporary file raises; the file is created and wave.open or synthesize_wav raises.
TtsOutcomes == {"ok", "tmpfile_fails", "synthesis_fails"}

\* NamedTemporaryFile(delete=False) has left a file on disk
TtsCreatesFile(outcome) == outcome # "tmpfile_fails"

\* text_to_speech returns (the caller's wav_path gets bound)
TtsReturns(outcome) == outcome = "ok"

(***************************************************************************)
(* speak (Kompanion.py 182-192).                                            *)
(***************************************************************************)
SpIdle == [pc |-> "idle", text |-> <<>>, wav_path |-> None, exc |-> "none", n |-> 0]

SpeakCall(text) ==
    [pc |-> "synth", text |-> text, wav_path |-> None, exc |-> "none", n |-> sp.n + 1]

\* line 185: wav_path = text_to_speech(text, voice=voice)
SpeakSynthesize(outcome) ==
    /\ sp.pc = "synth"
    /\ disk' = IF TtsCreatesFile(outcome) THEN disk \cup {WavName("main", sp.n)} ELSE disk
    /\ sp' = IF TtsReturns(outcome)
             THEN [sp EXCEPT !.pc = "play", !.wav_path = Some(WavName("main", sp.n))]
             ELSE [sp EXCEPT !.pc = "finally", !.exc = "synthesis"]
    /\ UNCHANGED <<pc, history, file, adult, turns, warn, gen, play_lock, th, status, probe>>

\* line 186: winsound.PlaySound(wav_path, winsound.SND_FILENAME)
SpeakPlay(ok) ==
    /\ sp.pc = "play"
    /\ sp' = [sp EXCEPT !.pc = "finally", !.exc = IF ok THEN "none" ELSE "playback"]
    /\ UNCHANGED <<pc, history, file, adult, turns, warn, gen, disk, play_lock, th, status, probe>>

\* lines 187-192: the finally block; a failing os.remove is passed over
SpeakFinally(outcome) ==
    /\ sp.pc = "finally"
    /\ disk' = IF Truthy(sp.wav_path) /\ sp.wav_path.text \in disk /\ outcome = "ok"
               THEN disk \ {sp.wav_path.text}
               ELSE disk
    /\ sp' = [sp EXCEPT !.pc = "returned"]
    /\ UNCHANGED <<pc, history, file, adult, turns, warn, gen, play_lock, th, status, probe>>

\* Faulty variant: speak swallows the exception
SpeakRaises_swallowed == "none"

\* the exception speak ends with, "none" when it returns normally
SpeakRaises == sp.exc

Speak ==
    \/ \E outcome \in TtsOutcomes : SpeakSynthesize(outcome)
    \/ \E ok \in BOOLEAN : SpeakPlay(ok)
    \/ \E outcome \in RemoveOutcomes : SpeakFinally(outcome)

(***************************************************************************)
(* play_text and the GUI (code.py 81-131).  The GUI starts one thread per   *)
(* click on Read; the thread runs play_text once.                           *)
(***************************************************************************)
Threads == { ToString(i) : i \in 1..NumThreads }

ThIdle ==
    [pc |-> "unstarted", text |-> <<>>, wav_path |-> None, exc |-> "none",
     last |-> "none", said |-> {}]

\* the text of the text box when Read is clicked
GuiTexts == { <<" ">>, <<"hello">> }

\* Faulty variant: the lock is taken whether or not it is held
TryAcquire_always(locked) == TRUE

\* _play_lock.acquire(blocking=False): whether it returns True
TryAcquire(locked) == ~locked

\* lines 123-127: do_read; a blank text starts no thread
DoRead(t, text) ==
    /\ th[t].pc = "unstarted"
    /\ IF strip(text) = <<>>
       THEN /\ status' = "Enter text to read"
            /\ UNCHANGED th
       ELSE /\ th' = [th EXCEPT ![t].pc = "acquire", ![t].text = text]
            /\ UNCHANGED status
    /\ UNCHANGED <<pc, history, file, adult, turns, warn, gen, sp, disk, play_lock, probe>>

\* lines 83-86: the lock is taken, or the call reports busy and returns
PlayAcquire(t) ==
    /\ th[t].pc = "acquire"
    /\ IF TryAcquire(play_lock)
       THEN /\ play_lock' = TRUE
            /\ th' = [th EXCEPT ![t].pc = "synth"]
            /\ UNCHANGED status
       ELSE /\ status' = "Already playing, please wait..."
            /\ th' = [th EXCEPT ![t].pc = "ended", ![t].last = "busy",
                                ![t].said = @ \cup {"Already playing, please wait..."}]
            /\ UNCHANGED play_lock
    /\ UNCHANGED <<pc, history, file, adult, turns, warn, gen, sp, disk, probe>>

\* lines 89-91: wav_path = text_to_speech(text, voice=voice)
PlaySynthesize(t, outcome) ==
    /\ th[t].pc = "synth"
    /\ status' = "Synthesizing..."
    /\ disk' = IF TtsCreatesFile(outcome) THEN disk \cup {WavName(t, 1)} ELSE disk
    /\ th' = IF TtsReturns(outcome)
             THEN [th EXCEPT ![t].pc = "play", ![t].said = @ \cup {"Synthesizing..."},
                             ![t].wav_path = Some(WavName(t, 1))]
             ELSE [th EXCEPT ![t].pc = "finally", ![t].said = @ \cup {"Synthesizing..."},
                             ![t].exc = "synthesis"]
    /\ UNCHANGED <<pc, history, file, adult, turns, warn, gen, sp, play_lock, probe>>

\* lines 92-94: winsound.PlaySound(wav_path, winsound.SND_FILENAME)
PlayPlay(t, ok) ==
    /\ th[t].pc = "play"
    /\ status' = "Playing..."
    /\ th' = [th EXCEPT ![t].pc = "finally", ![t].said = @ \cup {"Playing..."},
                        ![t].exc = IF ok THEN "none" ELSE "playback"]
    /\ UNCHANGED <<pc, history, file, adult, turns, warn, gen, sp, disk, play_lock, probe>>

\* lines 95-100: the finally block.  os.remove may raise: the statements after it
\* (the release of the lock, the Ready status) are then not run.
PlayFinally(t, outcome) ==
    /\ th[t].pc = "finally"
    /\ IF Truthy(th[t].wav_path) /\ th[t].wav_path.text \in disk /\ outcome = "fails"
       THEN /\ th' = [th EXCEPT ![t].pc = "ended", ![t].last = "raised",
                                ![t].exc = "remove"]
            /\ UNCHANGED <<disk, play_lock, status>>
       ELSE /\ disk' = IF Truthy(th[t].wav_path) THEN disk \ {th[t].wav_path.text} ELSE disk
            /\ play_lock' = FALSE
            /\ status' = "Ready"
            /\ th' = [th EXCEPT ![t].pc = "ended", ![t].said = @ \cup {"Ready"},
                                ![t].last = IF th[t].exc = "none" THEN "returned"
                                            ELSE "raised"]
    /\ UNCHANGED <<pc, history, file, adult, turns, warn, gen, sp, probe>>

PlayText(t) ==
    \/ PlayAcquire(t)
    \/ \E outcome \in TtsOutcomes : PlaySynthesize(t, outcome)
    \/ \E ok \in BOOLEAN : PlayPlay(t, ok)
    \/ \E outcome \in RemoveOutcomes : PlayFinally(t, outcome)

Gui == \E t \in Threads : (\E text \in GuiTexts : DoRead(t, text)) \/ PlayText(t)

(***************************************************************************)
(* main (Kompanion.py 225-301).                                             *)
(***************************************************************************)
\* what the user types as a chat message, after input().strip()
UserInputs == { <<"hello">> }

\* Faulty variant: main calls speak outside any try
MainExceptCatches_none == FALSE

\* the except clauses of save_history (69), reset_history (77) and main (300)
SaveExceptCatches == TRUE
ResetExceptCatches == TRUE
MainExceptCatches == TRUE

\* lines 228-232: load the voice (missing voice files abort), load the memory
MainStart ==
    /\ pc = "start"
    /\ \E voice_ok \in BOOLEAN, readable \in BOOLEAN :
          IF voice_ok
          THEN /\ pc' = IF LoadFails(file, readable) /\ ~LoadExceptCatches
                        THEN "crashed" ELSE "input"
               /\ history' = load_history(file, readable)
          ELSE /\ pc' = "aborted"
               /\ UNCHANGED history
    /\ UNCHANGED <<file, adult, turns, warn, gen, sp, disk, play_lock, th, status, probe>>

\* lines 236-247: end of input, exit or quit
MainExit ==
    /\ pc = "input"
    /\ pc' = "done"
    /\ warn' = {}
    /\ UNCHANGED <<history, file, adult, turns, gen, sp, disk, play_lock, th, status, probe>>

\* lines 241-242, 252-258, 283-284: empty input, /help, /mode, an unknown command
MainNoOp ==
    /\ pc = "input"
    /\ warn' = {}
    /\ UNCHANGED <<pc, history, file, adult, turns, gen, sp, disk, play_lock, th, status, probe>>

\* lines 260-263: /save
MainSave(outcome) ==
    /\ pc = "input"
    /\ file' = save_history(history, file, outcome)
    /\ warn' = SaveWarns(outcome)
    /\ pc' = IF outcome # "ok" /\ ~SaveExceptCatches THEN "crashed" ELSE "input"
    /\ UNCHANGED <<history, adult, turns, gen, sp, disk, play_lock, th, status, probe>>

\* lines 265-269: /reset
MainReset(outcome) ==
    /\ pc = "input"
    /\ history' = <<>>
    /\ file' = reset_history(file, outcome)
    /\ warn' = ResetWarns(file, outcome)
    /\ pc' = IF ResetWarns(file, outcome) # {} /\ ~ResetExceptCatches
             THEN "crashed" ELSE "input"
    /\ UNCHANGED <<adult, turns, gen, sp, disk, play_lock, th, status, probe>>

\* set_adult_mode (88-89)
set_adult_mode(enabled) == enabled

AdultOptions == {"on", "1", "true", "off", "0", "false", "maybe"}

\* lines 271-281: /adult <option>
MainAdult(option) ==
    /\ pc = "input"
    /\ adult' = IF option \in {"on", "1", "true"} THEN set_adult_mode(TRUE)
                ELSE IF option \in {"off", "0", "false"} THEN set_adult_mode(FALSE)
                ELSE adult
    /\ warn' = {}
    /\ UNCHANGED <<pc, history, file, turns, gen, sp, disk, play_lock, th, status, probe>>

\* lines 287-288: record the user turn and call generate_reply(history, user_text)
MainChat(user_text) ==
    /\ pc = "input"
    /\ turns < MaxTurns
    /\ turns' = turns + 1
    /\ history' = Append(history, UserTurn(user_text))
    /\ gen' = GenCall(user_text)
    /\ warn' = {}
    /\ pc' = "generating"
    /\ UNCHANGED <<file, adult, sp, disk, play_lock, th, status, probe>>

\* Faulty variant: the memory is saved before the reply is appended to it
MainRecord_save_first(outcome) ==
    /\ pc = "generating"
    /\ gen.pc = "returned"
    /\ gen' = GenIdle
    /\ IF gen.raised
       THEN /\ pc' = "crashed"
            /\ UNCHANGED <<history, file, warn, sp>>
       ELSE /\ file' = save_history(history, file, outcome)
            /\ history' = Append(history, AssistantTurn(gen.result))
            /\ warn' = warn \cup SaveWarns(outcome)
            /\ IF outcome # "ok" /\ ~SaveExceptCatches
               THEN pc' = "crashed" /\ UNCHANGED sp
               ELSE pc' = "speak" /\ sp' = SpeakCall(gen.result)
    /\ UNCHANGED <<adult, turns, disk, play_lock, th, status, probe>>

\* lines 288-299: record the reply, save the memory, call speak(reply, voice)
MainRecord(outcome) ==
    /\ pc = "generating"
    /\ gen.pc = "returned"
    /\ gen' = GenIdle
    /\ IF gen.raised
       THEN /\ pc' = "crashed"
            /\ UNCHANGED <<history, file, warn, sp>>
       ELSE /\ history' = Append(history, AssistantTurn(gen.result))
            /\ file' = save_history(history', file, outcome)
            /\ warn' = warn \cup SaveWarns(outcome)
            /\ IF outcome # "ok" /\ ~SaveExceptCatches
               THEN pc' = "crashed" /\ UNCHANGED sp
               ELSE pc' = "speak" /\ sp' = SpeakCall(gen.result)
    /\ UNCHANGED <<adult, turns, disk, play_lock, th, status, probe>>

\* lines 298-301: speak has ended; its exception is caught and reported
MainAfterSpeak ==
    /\ pc = "speak"
    /\ sp.pc = "returned"
    /\ sp' = [SpIdle EXCEPT !.n = sp.n]
    /\ warn' = IF SpeakRaises # "none" /\ MainExceptCatches THEN warn \cup {"audio"} ELSE warn
    /\ pc' = IF SpeakRaises # "none" /\ ~MainExceptCatches THEN "crashed" ELSE "input"
    /\ UNCHANGED <<history, file, adult, turns, gen, disk, play_lock, th, status, probe>>

\* the steps of a chat turn after the user's input
TurnStep ==
    \/ GenerateReply
    \/ \E outcome \in SaveOutcomes : MainRecord(outcome)
    \/ Speak
    \/ MainAfterSpeak

MainInput ==
    \/ MainExit
    \/ MainNoOp
    \/ \E outcome \in SaveOutcomes : MainSave(outcome)
    \/ \E outcome \in RemoveOutcomes : MainReset(outcome)
    \/ \E option \in AdultOptions : MainAdult(option)
    \/ \E user_text \in UserInputs : MainChat(user_text)

(***************************************************************************)
(* The session: Kompanion.py run as a program.                              *)
(***************************************************************************)
SeedTurn(i) == Turn(IF i % 2 = 1 THEN <<"user">> ELSE <<"assistant">>, <<ToString(i)>>)
SeedItems(n) == [i \in 1..n |-> DumpTurn(SeedTurn(i))]

\* a list as a hand-edited or damaged file may hold it
MixedItems ==
    << DumpTurn(SeedTurn(1)),
       JOther,
       JObject({"role"}, JStr(<<"user">>), JNull),
       JObject({"role", "content"}, JNum(<<"7">>), JNull),
       JObject({"content"}, JNull, JStr(<<"x">>)),
       DumpTurn(SeedTurn(2)) >>

InitialFiles ==
    { FileAbsent, FileGarbage, FileNotList, FileList(<<>>), FileList(MixedItems),
      FileList(SeedItems(MAX_HISTORY_MESSAGES - 1)),
      FileList(SeedItems(MAX_HISTORY_MESSAGES)) }

\* no function has been called directly
ProbeIdle ==
    [op |-> "none", arg |-> <<>>, outcome |-> "none", before |-> FileAbsent,
     result |-> <<>>, raised |-> FALSE]

InitCommon ==
    /\ probe = ProbeIdle
    /\ adult = FALSE
    /\ warn = {}
    /\ disk = {}
    /\ play_lock = FALSE
    /\ th = [t \in Threads |-> ThIdle]
    /\ status = "Ready"

InitSession ==
    /\ pc = "start"
    /\ history = <<>>
    /\ file \in InitialFiles
    /\ gen = GenIdle
    /\ sp = SpIdle
    /\ turns = 0
    /\ InitCommon

NextSession == MainStart \/ MainInput \/ TurnStep

SpecSession == InitSession /\ [][NextSession]_vars

(***************************************************************************)
(* The speech path: the session loop about to speak the reply of its first  *)
(* turn (line 299), beside the playback threads of the GUI.                 *)
(***************************************************************************)
InitSpeech ==
    /\ pc = "speak"
    /\ \E reply \in {<<"Hi!">>} :
          /\ history = <<UserTurn(<<"hello">>), AssistantTurn(reply)>>
          /\ sp = [SpIdle EXCEPT !.pc = "synth", !.text = reply, !.n = 1]
    /\ file = DumpHistory(history)
    /\ gen = GenIdle
    /\ turns = 1
    /\ InitCommon

NextSpeech == Speak \/ MainAfterSpeak \/ Gui

SpecSpeech == InitSpeech /\ [][NextSpeech]_vars

(***************************************************************************)
(* generate_reply called on its own, on arguments drawn from small sets:    *)
(* the session loop is not running, history is the caller's list.           *)
(***************************************************************************)
ReplyHistories ==
    { <<>>,
      <<UserTurn(<<"hi">>), AssistantTurn(<<"Hi!">>)>>,
      <<UserTurn(<<"hi">>), AssistantTurn(<<"Hi!">>), UserTurn(<<"hello">>)>> }

ReplyUserTexts ==
    { <<>>, <<" ">>, <<"hello">>, <<" ", "hello", "\n">>, <<"hello", " ", "you">> }

InitReply ==
    /\ pc = "off"
    /\ history \in ReplyHistories
    /\ file = FileAbsent
    /\ \E user_text \in ReplyUserTexts : gen = GenCall(user_text)
    /\ sp = SpIdle
    /\ turns = 0
    /\ InitCommon

NextReply == GenerateReply

SpecReply == InitReply /\ [][NextReply]_vars

(***************************************************************************)
(* load_history, save_history and reset_history called on their own, on a   *)
(* store and a history drawn from small sets: the session loop is not       *)
(* running, probe records each call.                                        *)
(***************************************************************************)
StoreHistories ==
    { <<>>,
      <<UserTurn(<<"hi">>), AssistantTurn(<<"Hi!">>)>>,
      [i \in 1..(MAX_HISTORY_MESSAGES + 1) |-> SeedTurn(i)] }

StoreFiles == InitialFiles \cup { FileList(SeedItems(MAX_HISTORY_MESSAGES + 1)) }

StoreLoad(readable) ==
    /\ pc = "off"
    /\ probe' = [op |-> "load", arg |-> <<>>,
                 outcome |-> IF readable THEN "ok" ELSE "fails",
                 before |-> file,
                 result |-> load_history(file, readable),
                 raised |-> LoadFails(file, readable) /\ ~LoadExceptCatches]
    /\ UNCHANGED <<pc, history, file, adult, turns, warn, gen, sp, disk, play_lock, th,
                   status>>

StoreSave(outcome) ==
    /\ pc = "off"
    /\ file' = save_history(history, file, outcome)
    /\ probe' = [op |-> "save", arg |-> history, outcome |-> outcome, before |-> file,
                 result |-> <<>>,
                 raised |-> SaveWarns(outcome) # {} /\ ~SaveExceptCatches]
    /\ UNCHANGED <<pc, history, adult, turns, warn, gen, sp, disk, play_lock, th, status>>

StoreReset(outcome) ==
    /\ pc = "off"
    /\ file' = reset_history(file, outcome)
    /\ probe' = [op |-> "reset", arg |-> <<>>, outcome |-> outcome, before |-> file,
                 result |-> <<>>,
                 raised |-> ResetWarns(file, outcome) # {} /\ ~ResetExceptCatches]
    /\ UNCHANGED <<pc, history, adult, turns, warn, gen, sp, disk, play_lock, th, status>>

InitStore ==
    /\ pc = "off"
    /\ history \in StoreHistories
    /\ file \in StoreFiles
    /\ gen = GenIdle
    /\ sp = SpIdle
    /\ turns = 0
    /\ InitCommon

NextStore ==
    \/ \E readable \in BOOLEAN : StoreLoad(readable)
    \/ \E outcome \in SaveOutcomes : StoreSave(outcome)
    \/ \E outcome \in RemoveOutcomes : StoreReset(outcome)

SpecStore == InitStore /\ [][NextStore]_vars

(***************************************************************************)
(* _clean_text_for_tts called on its own, on every text of at most          *)
(* MaxTextLen characters over a small alphabet.                             *)
(***************************************************************************)
CleanChars == {" ", "\"", "rdquo", "\\", "s", "a"}

RECURSIVE TextsUpTo(_)
TextsUpTo(n) ==
    IF n = 0 THEN {<<>>}
    ELSE LET shorter == TextsUpTo(n - 1)
         IN  shorter \cup {Append(t, c) : t \in shorter, c \in CleanChars}

CleanTexts == TextsUpTo(MaxTextLen)

CleanCall(text) ==
    /\ pc = "off"
    /\ probe.op = "none"
    /\ probe' = [ProbeIdle EXCEPT !.op = "clean", !.arg = text,
                                  !.result = clean_text_for_tts(text)]
    /\ UNCHANGED <<pc, history, file, adult, turns, warn, gen, sp, disk, play_lock, th,
                   status>>

InitClean ==
    /\ pc = "off"
    /\ history = <<>>
    /\ file = FileAbsent
    /\ gen = GenIdle
    /\ sp = SpIdle
    /\ turns = 0
    /\ InitCommon

NextClean == \E text \in CleanTexts : CleanCall(text)

SpecClean == InitClean /\ [][NextClean]_vars

(***************************************************************************)
(* Properties.                                                              *)
(***************************************************************************)
InFlight(t) == th[t].pc \in {"synth", "play", "finally"}

BusyStatus == "Already playing, please wait..."

\* C1: a play_text call that finds the lock held reports the busy status and
\* returns without synthesizing, without creating a file and without releasing the
\* lock; a call that finds it free takes it; no two calls are inside the
\* synthesize+play section at the same time.
C1_SingleFlight ==
    /\ [](/\ Cardinality({t \in Threads : InFlight(t)}) <= 1
          /\ \A t \in Threads :
                th[t].last = "busy" =>
                    /\ th[t].pc = "ended"
                    /\ th[t].said = {BusyStatus}
                    /\ th[t].wav_path = None
                    /\ th[t].exc = "none"
                    /\ WavName(t, 1) \notin disk)
    /\ [][\A t \in Threads :
            (th[t].pc = "acquire" /\ th'[t] # th[t]) =>
                IF play_lock
                THEN /\ th'[t].last = "busy"
                     /\ status' = BusyStatus
                     /\ play_lock'
                     /\ disk' = disk
                ELSE /\ th'[t].pc = "synth"
                     /\ play_lock']_vars

C1_Witness ==
    \E t, u \in Threads :
        /\ th[t].last = "busy"
        /\ th[u].pc \in {"synth", "play"}

\* C2: once a call of speak or play_text has ended, by return or by exception, no
\* temporary wav file that the call created is on disk.
C2_NoArtifactRemains ==
    /\ sp.pc \in {"idle", "returned"} => WavName("main", sp.n) \notin disk
    /\ \A t \in Threads : th[t].pc = "ended" => WavName(t, 1) \notin disk

\* C3: when no play_text call is between taking the lock and its end, the lock is
\* free: every call that took it has released it on its way out.
C3_GateReleased ==
    (\A t \in Threads : ~InFlight(t)) => ~play_lock

\* the last min(len(h), MAX_HISTORY_MESSAGES) turns of h, oldest first
LastTurns(h) ==
    LET n == IF Len(h) < MAX_HISTORY_MESSAGES THEN Len(h) ELSE MAX_HISTORY_MESSAGES
    IN  [i \in 1..n |-> h[Len(h) - n + i]]

\* the list items holds exactly the turns ts, as objects with role and content
HoldsTurns(items, ts) ==
    /\ Len(items) = Len(ts)
    /\ \A i \in 1..Len(items) :
          /\ items[i].dict
          /\ items[i].keys = {"role", "content"}
          /\ items[i].role = [t |-> "str", v |-> ts[i].role]
          /\ items[i].content = [t |-> "str", v |-> ts[i].content]

\* f holds exactly the turns of LastTurns(h)
PersistsLast(h, f) == f.kind = "json_list" /\ HoldsTurns(f.data, LastTurns(h))

\* a save_history call of the session loop (/save, or the save of a chat turn)
SaveDone ==
    \/ pc' = "input" /\ \E outcome \in SaveOutcomes : MainSave(outcome)
    \/ pc' = "speak" /\ \E outcome \in SaveOutcomes : MainRecord(outcome)

\* such a call whose write succeeded
SaveSucceeded ==
    \/ pc' = "input" /\ MainSave("ok")
    \/ pc' = "speak" /\ MainRecord("ok")

\* C4: a save_history(H) whose write succeeds leaves in the file exactly the last
\* min(len(H), MAX_HISTORY_MESSAGES) turns of H in their order, and the persisted
\* list never holds more than MAX_HISTORY_MESSAGES turns.
C4_SaveKeepsLastTurns ==
    /\ [](file.kind = "json_list" => Len(file.data) <= MAX_HISTORY_MESSAGES)
    /\ [][SaveSucceeded => PersistsLast(history', file')]_vars

C4_Witness ==
    /\ Len(history) > MAX_HISTORY_MESSAGES
    /\ PersistsLast(history, file)

\* C5 as stated: after save_history(H), load_history() returns the last
\* MAX_HISTORY_MESSAGES turns of H.
C5_RoundTripAnySave ==
    [][SaveDone => load_history(file', TRUE) = LastTurns(history')]_vars

\* C5 (amended): after a save_history(H) whose write succeeds, a load_history()
\* that can read the file returns the last MAX_HISTORY_MESSAGES turns of H, in order.
C5_RoundTrip ==
    [][SaveSucceeded => load_history(file', TRUE) = LastTurns(history')]_vars

C5_Witness ==
    /\ Len(history) = MAX_HISTORY_MESSAGES + 2
    /\ load_history(file, TRUE) = LastTurns(history)
    /\ load_history(file, TRUE) # history
    /\ load_history(file, FALSE) = <<>>

\* the responses by which the primary backend fails: transport error, timeout,
\* non-2xx status, malformed payload, payload without text or with empty text
FailingKinds ==
    { "transport_error", "timeout", "http_error", "bad_json", "not_object",
      "no_message", "message_not_object", "no_content", "content_null",
      "content_number" }

PrimaryFails(resp) ==
    resp.kind \in FailingKinds \/ (resp.kind = "content_text" /\ resp.content = <<>>)

\* C6: when the primary backend fails, generate_reply does not raise and returns a
\* non-empty text that contains the user's text stripped of surrounding whitespace.
C6_FallbackEchoesUser ==
    /\ ~gen.raised
    /\ (gen.pc = "returned" /\ PrimaryFails(gen.resp)) =>
           /\ gen.result # <<>>
           /\ Contains(gen.result, strip(gen.user_text))

C6_Witness ==
    /\ gen.pc = "returned"
    /\ gen.resp.kind = "timeout"
    /\ gen.user_text = <<" ", "hello", "\n">>
    /\ Contains(gen.result, <<"hello">>)
    /\ ~Contains(gen.result, gen.user_text)

\* the single attempt produced no answer: an error, a non-2xx status, a missing,
\* empty or blank text field, a timeout
NoAnswer(resp) ==
    resp.kind # "content_text" \/ \A i \in 1..Len(resp.content) : resp.content[i] \in Whitespace

\* C7: within one generate_reply call the primary backend is tried exactly once,
\* the fallback runs if and only if that attempt produced no answer, and the call
\* always goes on to return a reply.
C7_OneAttemptThenFallback ==
    /\ gen.attempts <= 1
    /\ gen.fallbacks <= 1
    /\ gen.pc \in {"call", "decide"} => ENABLED GenerateReply
    /\ gen.pc = "decide" => gen.attempts = 1 /\ gen.fallbacks = 0
    /\ gen.pc = "returned" =>
           /\ gen.attempts = 1
           /\ ~gen.raised
           /\ gen.result # <<>>
           /\ gen.fallbacks = 1 <=> NoAnswer(gen.resp)

C7_Witness ==
    /\ gen.pc = "returned"
    /\ gen.resp = Resp("content_text", <<" ">>)
    /\ gen.attempts = 1
    /\ gen.fallbacks = 1

\* C8 as stated: a successful answer whose message.content is a non-empty text c
\* makes generate_reply return exactly c.
C8_ReturnsContentExactly ==
    (gen.pc = "returned" /\ gen.resp.kind = "content_text" /\ gen.resp.content # <<>>)
        => gen.result = gen.resp.content

\* C8 (amended): a successful answer whose message.content is a text c that is not
\* blank makes generate_reply return c stripped of leading and trailing whitespace,
\* with no fallback fragment; so exactly c when c has no surrounding whitespace.
C8_ReturnsStrippedContent ==
    (gen.pc = "returned" /\ gen.resp.kind = "content_text" /\ ~NoAnswer(gen.resp)) =>
        /\ gen.result = strip(gen.resp.content)
        /\ gen.fallbacks = 0
        /\ (strip(gen.resp.content) = gen.resp.content => gen.result = gen.resp.content)

C8_Witness ==
    /\ gen.pc = "returned"
    /\ gen.resp = Resp("content_text", <<" ", "Hi!", "\n">>)
    /\ gen.result = <<"Hi!">>

InTurn == pc \in {"generating", "speak"}

\* the steps a started chat turn has left at most, until the loop reads input again
TurnRank ==
    CASE pc = "generating" /\ gen.pc = "call" -> 7
      [] pc = "generating" /\ gen.pc = "decide" -> 6
      [] pc = "generating" /\ gen.pc = "returned" -> 5
      [] pc = "speak" /\ sp.pc = "synth" -> 4
      [] pc = "speak" /\ sp.pc = "play" -> 3
      [] pc = "speak" /\ sp.pc = "finally" -> 2
      [] pc = "speak" /\ sp.pc = "returned" -> 1
      [] OTHER -> 0

\* C9: once startup has succeeded the session loop never halts on a failure: a
\* started chat turn, whatever fails in it, can always take its next step, gets
\* closer to its end with every step, and ends with the loop waiting for input
\* again; only exit, quit or the end of input ends the loop.
C9_LoopNeverHalts ==
    /\ [](/\ pc # "crashed"
          /\ InTurn => ENABLED TurnStep /\ TurnRank > 0)
    /\ [][InTurn => (IF InTurn' THEN TurnRank' < TurnRank ELSE pc' = "input")]_vars
    /\ [][(pc' = "done" /\ pc # "done") => MainExit]_vars
    /\ [][(pc' = "aborted" /\ pc # "aborted") => pc = "start"]_vars

C9_Witness ==
    /\ pc = "input"
    /\ turns = 1
    /\ {"fallback", "save", "audio"} \subseteq warn

SpeakInFlight == sp.pc \in {"play", "finally"}

\* C11: the playback lock is process-wide: speak of the session loop holds it
\* for its synthesize-and-play section as play_text does, so that at most one
\* synthesis and playback is in flight among speak and the playback threads,
\* also when speak and a play_text thread run at the same time.
C11_GateCoversSpeak ==
    Cardinality({t \in Threads : InFlight(t)}) + (IF SpeakInFlight THEN 1 ELSE 0) <= 1

\* C12 as stated: from any state of the store, reset_history() never raises and
\* a load_history() right after it returns the empty history, also when the
\* deletion was refused.
C12_ResetThenLoadEmptyAlways ==
    probe.op = "reset" =>
        /\ ~probe.raised
        /\ \A readable \in BOOLEAN : load_history(file, readable) = <<>>

\* C12: from any state of the store, reset_history() never raises, whether the
\* file is missing or its deletion is refused; when the file is missing or its
\* deletion succeeds, a load_history() right after it returns the empty history.
C12_ResetThenLoadEmpty ==
    probe.op = "reset" =>
        /\ ~probe.raised
        /\ (probe.before.kind = "absent" \/ probe.outcome = "ok")
               => \A readable \in BOOLEAN : load_history(file, readable) = <<>>

C12_Witness ==
    /\ probe.op = "reset"
    /\ probe.outcome = "ok"
    /\ probe.before = FileList(SeedItems(MAX_HISTORY_MESSAGES))
    /\ load_history(probe.before, TRUE) # <<>>
    /\ load_history(file, TRUE) = <<>>

\* C13: the in-memory history is truncated at every save: right after the
\* save_history call of a chat turn (line 292, the loop is about to speak) it
\* holds at most MAX_HISTORY_MESSAGES turns.
C13_MemoryTruncatedAtSave ==
    pc = "speak" => Len(history) <= MAX_HISTORY_MESSAGES

\* an element of the stored list that is an object carrying both role and content
IsTurnObject(item) == item.dict /\ {"role", "content"} \subseteq item.keys

\* the elements load_history keeps: none when the store is absent, unreadable,
\* not valid JSON or not a list
KeptElements(f, readable) ==
    IF f.kind = "json_list" /\ readable THEN SelectSeq(f.data, IsTurnObject) ELSE <<>>

\* C14 as stated: load_history() never raises and returns exactly the kept
\* elements of the stored list, in their order.
C14_LoadReturnsElements ==
    probe.op = "load" =>
        /\ ~probe.raised
        /\ DumpTurns(probe.result) = KeptElements(probe.before, probe.outcome = "ok")

\* C14: load_history() never raises; it returns the empty history when the
\* store is absent, unreadable, not valid JSON or not a list, and otherwise one
\* turn per kept element, in their order, holding the element's role and
\* content converted to text by str().
C14_LoadReturnsTurnsOfElements ==
    probe.op = "load" =>
        LET kept == KeptElements(probe.before, probe.outcome = "ok")
        IN  /\ ~probe.raised
            /\ probe.result =
                  [i \in 1..Len(kept) |-> Turn(PyStr(kept[i].role), PyStr(kept[i].content))]

C14_Witness ==
    /\ probe.op = "load"
    /\ probe.outcome = "ok"
    /\ probe.before = FileList(MixedItems)
    /\ Len(probe.result) = 3
    /\ probe.result[2] = Turn(<<"7">>, <<"None">>)

QuoteChars == {"\"", "ldquo", "rdquo", "'", "rsquo", "lsquo"}

\* t without the run of quotation marks at its end
RECURSIVE WithoutTrailingQuotes(_)
WithoutTrailingQuotes(t) ==
    IF t # <<>> /\ t[Len(t)] \in QuoteChars
    THEN WithoutTrailingQuotes(SubSeq(t, 1, Len(t) - 1))
    ELSE t

\* C15: for every text, the cleaned text is c if c is not empty and t
\* otherwise, where t is the text stripped of leading and trailing whitespace
\* and c is t without the quotation marks at its end; so only whitespace and
\* quotation marks are ever removed.
C15_CleanEqualsReference ==
    probe.op = "clean" =>
        LET t == strip(probe.arg)
            c == WithoutTrailingQuotes(t)
        IN  probe.result = IF c # <<>> THEN c ELSE t

\* C16: generate_reply leaves the caller's history as it was, on the primary
\* path and on the fallback path: the user turn goes to a working copy only.
C16_CallerHistoryUnchanged ==
    /\ [][history' = history]_vars
    /\ [](gen.pc \in {"decide", "returned"}
            => gen.chat_history = history \o <<UserTurn(gen.user_text)>>)

C16_Witness ==
    /\ gen.pc = "returned"
    /\ gen.fallbacks = 1
    /\ history = <<UserTurn(<<"hi">>), AssistantTurn(<<"Hi!">>)>>
    /\ gen.chat_history = Append(history, UserTurn(gen.user_text))

\* the options of /adult that switch the flag: on and off, with their synonyms
SwitchingOptions == {"on", "1", "true", "off", "0", "false"}

\* C17: the adult flag is off when the session starts and changes only by an
\* /adult on or /adult off command: chat turns, /help, /mode, /save, /reset,
\* unknown commands and /adult with an invalid option leave it as it is; the
\* system instruction of a request holds the adult rules exactly when the
\* flag is on at the time of the request.
C17_AdultFlag ==
    /\ [](pc = "start" => ~adult)
    /\ [][adult' # adult => \E option \in SwitchingOptions : MainAdult(option)]_vars
    /\ [](gen.pc \in {"decide", "returned"}
            => (Contains(gen.request.system, AdultRules) <=> adult))

C17_Witness ==
    /\ pc = "generating"
    /\ gen.pc = "returned"
    /\ adult
    /\ Contains(gen.request.system, AdultRules)

\* C18: save_history is idempotent: when the same history is saved twice in a
\* row and both writes succeed, the second save leaves the file as the first
\* left it, with the same turns in the same order.
C18_SaveIdempotent ==
    [][(probe.op = "save" /\ probe.outcome = "ok" /\ probe.arg = history
          /\ StoreSave("ok")) => file' = file]_vars

C18_Witness ==
    /\ probe.op = "save"
    /\ probe.outcome = "ok"
    /\ Len(probe.arg) = MAX_HISTORY_MESSAGES + 1
    /\ probe.before = file
    /\ file = DumpHistory(probe.arg)

\* C19: in every chat turn the message list sent to the primary backend is the
\* conversation so far followed by the new user utterance once: the utterance
\* is not duplicated in the request.  (While the reply is generated, history
\* is the conversation so far followed by the user turn, from line 287.)
C19_UserTurnSentOnce ==
    (pc = "generating" /\ gen.pc \in {"decide", "returned"})
        => gen.request.messages = history

\* load_history() would return exactly the last MAX_HISTORY_MESSAGES turns of h
InStep(h, f) == load_history(f, TRUE) = LastTurns(h)

\* the store is in step with the memory: at the prompt and while the reply is
\* spoken, with history; while the reply is generated, with history less the
\* user turn that line 287 has just appended
Synced(p, h, f) ==
    CASE p \in {"input", "speak"} -> InStep(h, f)
      [] p = "generating" -> h # <<>> /\ InStep(SubSeq(h, 1, Len(h) - 1), f)
      [] OTHER -> TRUE

\* a step in which a write or a deletion of the store fails
FailedWrite ==
    \/ /\ pc = "input"
       /\ \/ \E outcome \in SaveOutcomes : SaveWarns(outcome) # {} /\ MainSave(outcome)
          \/ ResetWarns(file, "fails") # {} /\ MainReset("fails")
    \/ /\ pc = "generating"
       /\ \E outcome \in SaveOutcomes : SaveWarns(outcome) # {} /\ MainRecord(outcome)

\* a step that moves the loop or touches the memory or the store (any other
\* step leaves Synced as it is)
LoopStep == pc' # pc \/ history' # history \/ file' # file

\* C20: from a session started on a store that load_history can read, as long
\* as every write and deletion succeeds, after any chat turns and commands
\* load_history() would return exactly the last MAX_HISTORY_MESSAGES turns of
\* the in-memory history whenever the loop waits for input; the turn is saved
\* before its reply is spoken, and speaking leaves the store as it is, so a
\* failure of the audio does not lose the turn.
C20_StoreInStepWithMemory ==
    /\ [][(pc = "start" /\ pc' = "input" /\ history' = load_history(file, TRUE))
            => Synced(pc', history', file')]_vars
    /\ [][(pc \in {"input", "generating", "speak"} /\ LoopStep /\ ~FailedWrite
             /\ Synced(pc, history, file))
            => Synced(pc', history', file')]_vars
    /\ [][pc = "speak" => file' = file]_vars

C20_Witness ==
    /\ pc = "input"
    /\ turns = 1
    /\ "audio" \in warn
    /\ Len(history) = MAX_HISTORY_MESSAGES + 2
    /\ InStep(history, file)

====
